---------------------------- MODULE Spec2Model ----------------------------
(***************************************************************************)
(* Model of the fuzzy-search server of src/main.rs: the edit-distance      *)
(* calculator calc_dist_bytes, the tokenised matcher fuzzy_match, the      *)
(* loader get_names and the request handler post_search.                   *)
(*                                                                         *)
(* A string is modelled by the sequence of its bytes (natural numbers).    *)
(* Vectors are 1-based sequences: index j of the Rust code is index j + 1  *)
(* here.                                                                   *)
(***************************************************************************)
EXTENDS Naturals, Integers, Sequences, FiniteSets, TLC

VARIABLES
    pc,         \* position of the modelled call
    names,      \* Data<Vec<String>>: the corpus, loaded once by get_names
    query,      \* params.query of the request being served
    tasks,      \* the chunks the parallel iterator has split the corpus into
    collected,  \* the vector .collect() produced, before the sort
    response,   \* SearchResponse.results of the last answered request
    history,    \* the <<query, results>> pairs answered so far
    a, b, c,    \* arguments of calc_dist_bytes
    full_name,  \* argument of fuzzy_match
    ret         \* value(s) returned by the function under test

vars == <<pc, names, query, tasks, collected, response, history,
          a, b, c, full_name, ret>>

\* Value of a variable the specification at hand does not use.
Unused == <<>>

-----------------------------------------------------------------------------
(* Bounds of the checked inputs *)

\* longest byte sequence handed to calc_dist_bytes on its own
MaxLen == 3

\* the bytes those sequences are made of: 'a', 'b'
Letters == {97, 98}

\* all byte sequences over alphabet of length at most n
Str(alphabet, n) == UNION {[1..k -> alphabet] : k \in 0..n}

Kitten == <<107, 105, 116, 116, 101, 110>>
Sitting == <<115, 105, 116, 116, 105, 110, 103>>

-----------------------------------------------------------------------------
(* calc_dist_bytes, src/main.rs:186-213 *)

Min2(x, y) == IF x <= y THEN x ELSE y

\* line 204: let cost = if a[i] == b[j] { 0 } else { 1 };
cost_mut_always_one(x, y) == 1
subst_cost(x, y) == IF x = y THEN 0 ELSE 1

\* line 206: (prev[j + 1] + 1).min(curr[j] + 1).min(prev[j] + cost)
cell_mut_delete_two(up, left, diag, cost) == Min2(Min2(up + 2, left + 1), diag + cost)
cell(up, left, diag, cost) == Min2(Min2(up + 1, left + 1), diag + cost)

\* lines 203-207: the inner loop, from column j on, of row i
RECURSIVE inner_loop(_, _, _, _, _, _)
inner_loop(s, t, i, j, prev, curr) ==
    IF j >= Len(t) THEN curr
    ELSE LET cost == subst_cost(s[i + 1], t[j + 1])
             v == cell(prev[j + 2], curr[j + 1], prev[j + 1], cost)
         IN  inner_loop(s, t, i, j + 1, prev, [curr EXCEPT ![j + 2] = v])

\* line 212: the value returned once the rows are exhausted
last_row_mut_no_swap(prev, curr) == curr
last_row(prev, curr) == prev

\* lines 200-212: the outer loop, from row i on; the buffers are swapped
\* after each row (line 209)
RECURSIVE outer_loop(_, _, _, _, _)
outer_loop(s, t, i, prev, curr) ==
    IF i >= Len(s) THEN last_row(prev, curr)[Len(t) + 1]
    ELSE LET row == inner_loop(s, t, i, 0, prev, [curr EXCEPT ![1] = i + 1])
         IN  outer_loop(s, t, i + 1, row, prev)

calc_dist_bytes(s, t) ==
    IF Len(s) = 0 THEN Len(t)
    ELSE IF Len(t) = 0 THEN Len(s)
    ELSE outer_loop(s, t, 0,
                    [j \in 1..(Len(t) + 1) |-> j - 1],
                    [j \in 1..(Len(t) + 1) |-> 0])

-----------------------------------------------------------------------------
(* Specification of calc_dist_bytes as a pure function: the arguments are  *)
(* drawn in Init and CalcDist applies the function to them.                *)

DistInputs ==
    (Str(Letters, MaxLen) \X Str(Letters, MaxLen) \X Str(Letters, MaxLen))
        \cup {<<Kitten, Sitting, <<>>>>}

InitDist ==
    /\ pc = "call"
    /\ \E in \in DistInputs : a = in[1] /\ b = in[2] /\ c = in[3]
    /\ ret = Unused
    /\ names = Unused /\ query = Unused /\ tasks = Unused
    /\ collected = Unused /\ response = Unused /\ history = Unused
    /\ full_name = Unused

CalcDist ==
    /\ pc = "call"
    /\ ret' = [ab |-> calc_dist_bytes(a, b),
               ba |-> calc_dist_bytes(b, a),
               bc |-> calc_dist_bytes(b, c),
               ac |-> calc_dist_bytes(a, c),
               aa |-> calc_dist_bytes(a, a)]
    /\ pc' = "done"
    /\ UNCHANGED <<names, query, tasks, collected, response, history,
                   a, b, c, full_name>>

NextDist == CalcDist

SpecDist == InitDist /\ [][NextDist]_vars

-----------------------------------------------------------------------------
(* Claims about calc_dist_bytes *)

\* The classic Levenshtein distance by the full (Len(s)+1) x (Len(t)+1) grid.
Levenshtein(s, t) ==
    LET grid[i \in 0..Len(s), j \in 0..Len(t)] ==
            IF i = 0 THEN j
            ELSE IF j = 0 THEN i
            ELSE LET sub == grid[i - 1, j - 1] + (IF s[i] = t[j] THEN 0 ELSE 1)
                     del == grid[i - 1, j] + 1
                     ins == grid[i, j - 1] + 1
                 IN  IF sub <= del /\ sub <= ins THEN sub
                     ELSE IF del <= ins THEN del ELSE ins
    IN  grid[Len(s), Len(t)]

\* C4: calc_dist_bytes(a, b) equals the Levenshtein distance of the full
\* recurrence, for all a and b, empty ones included; distance("", b) = len(b),
\* distance(a, "") = len(a), distance(a, a) = 0 and
\* distance("kitten", "sitting") = 3.
C4_DistIsLevenshtein ==
    pc = "done" =>
        /\ ret.ab = Levenshtein(a, b)
        /\ ret.bc = Levenshtein(b, c)
        /\ ret.ac = Levenshtein(a, c)
        /\ (a = <<>> => ret.ab = Len(b))
        /\ (b = <<>> => ret.ab = Len(a))
        /\ ret.aa = 0
        /\ (a = Kitten /\ b = Sitting => ret.ab = 3)

C4_Witness ==
    /\ pc = "done" /\ a = Kitten /\ b = Sitting /\ ret.ab = 3

\* C7: calc_dist_bytes is symmetric: calc_dist_bytes(a, b) =
\* calc_dist_bytes(b, a) for all a and b.
C7_Symmetric == pc = "done" => ret.ab = ret.ba

C7_Witness ==
    /\ pc = "done" /\ Len(a) = MaxLen /\ Len(b) = 1 /\ ret.ab = MaxLen
    /\ ret.ba = MaxLen

\* C8: triangle inequality: calc_dist_bytes(a, c) <= calc_dist_bytes(a, b) +
\* calc_dist_bytes(b, c) for all a, b and c.
C8_Triangle == pc = "done" => ret.ac <= ret.ab + ret.bc

C8_Witness ==
    /\ pc = "done" /\ ret.ab > 0 /\ ret.bc > 0 /\ ret.ac = ret.ab + ret.bc
    /\ a # <<>> /\ b # <<>> /\ c # <<>>

-----------------------------------------------------------------------------
(* fuzzy_match, src/main.rs:215-225 *)

\* the space of the test `full_name.contains(' ')`, line 216
SPACE == 32

\* usize::MAX of line 224. The model checker's integers are 32 bits wide, so
\* the largest of them stands for it; no arithmetic is done on the value.
USIZE_MAX == 2147483647

\* char::is_whitespace over the one-byte characters: tab, line feed, vertical
\* tab, form feed, carriage return, space (line 221 splits on these)
White_Space == {9, 10, 11, 12, 13, 32}

is_whitespace(ch) == ch \in White_Space

\* str::contains(char), line 216
contains(s, ch) == \E i \in 1..Len(s) : s[i] = ch

\* str::split_whitespace, line 221: the maximal runs of non-whitespace bytes,
\* left to right; cur is the run being read, acc the runs read so far
RECURSIVE split_from(_, _, _, _)
split_from(s, i, cur, acc) ==
    IF i > Len(s)
    THEN IF cur = <<>> THEN acc ELSE Append(acc, cur)
    ELSE IF is_whitespace(s[i])
         THEN split_from(s, i + 1, <<>>,
                         IF cur = <<>> THEN acc ELSE Append(acc, cur))
         ELSE split_from(s, i + 1, Append(cur, s[i]), acc)

split_whitespace(s) == split_from(s, 1, <<>>, <<>>)

\* Iterator::min followed by unwrap_or(usize::MAX), lines 223-224
RECURSIVE min_from(_, _, _)
min_from(ds, i, best) ==
    IF i > Len(ds) THEN best
    ELSE min_from(ds, i + 1, IF ds[i] < best THEN ds[i] ELSE best)

min_unwrap_or(ds, default) ==
    IF Len(ds) = 0 THEN default ELSE min_from(ds, 2, ds[1])

\* lines 216-218: the test that sends a name down the single-word path
single_word(name) == ~contains(name, SPACE)

fuzzy_match_mut_whole_too(query_bytes, name) ==
    IF single_word(name)
    THEN calc_dist_bytes(query_bytes, name)
    ELSE LET parts == split_whitespace(name)
             ds == [k \in 1..Len(parts) |-> calc_dist_bytes(query_bytes, parts[k])]
         IN  Min2(calc_dist_bytes(query_bytes, name),
                  min_unwrap_or(ds, USIZE_MAX))
fuzzy_match(query_bytes, name) ==
    IF single_word(name)
    THEN calc_dist_bytes(query_bytes, name)
    ELSE LET parts == split_whitespace(name)
             ds == [k \in 1..Len(parts) |-> calc_dist_bytes(query_bytes, parts[k])]
         IN  min_unwrap_or(ds, USIZE_MAX)

-----------------------------------------------------------------------------
(* Specification of fuzzy_match as a pure function *)

\* longest candidate name and longest query handed to fuzzy_match on its own
MaxNameLen == 4
MaxQueryLen == 2

\* the bytes of the candidate names: 'a', 'b', space, tab
NameBytes == {97, 98, 32, 9}

InitMatch ==
    /\ pc = "call"
    /\ full_name \in Str(NameBytes, MaxNameLen)
    /\ query \in Str(Letters, MaxQueryLen) \cup {full_name}
    /\ ret = Unused
    /\ names = Unused /\ tasks = Unused
    /\ collected = Unused /\ response = Unused /\ history = Unused
    /\ a = Unused /\ b = Unused /\ c = Unused

Match ==
    /\ pc = "call"
    /\ ret' = fuzzy_match(query, full_name)
    /\ pc' = "done"
    /\ UNCHANGED <<names, query, tasks, collected, response, history,
                   a, b, c, full_name>>

NextMatch == Match

SpecMatch == InitMatch /\ [][NextMatch]_vars

-----------------------------------------------------------------------------
(* Claims about fuzzy_match *)

\* The tokens of s: its maximal substrings free of whitespace.
Tokens(s) ==
    {SubSeq(s, p[1], p[2]) : p \in
        {p \in (1..Len(s)) \X (1..Len(s)) :
            /\ p[1] <= p[2]
            /\ \A k \in p[1]..p[2] : ~is_whitespace(s[k])
            /\ (p[1] = 1 \/ is_whitespace(s[p[1] - 1]))
            /\ (p[2] = Len(s) \/ is_whitespace(s[p[2] + 1]))}}

HasWhitespace(s) == \E i \in 1..Len(s) : is_whitespace(s[i])

AllWhitespace(s) == \A i \in 1..Len(s) : is_whitespace(s[i])

\* the least distance from q to a token of s (s has a token)
MinTokenDist(q, s) ==
    CHOOSE d \in {calc_dist_bytes(q, t) : t \in Tokens(s)} :
        \A t \in Tokens(s) : d <= calc_dist_bytes(q, t)

\* C5: a candidate containing any whitespace character (space, tab or other)
\* gets the minimum of calc_dist_bytes(query, token) over its tokens; a
\* candidate without whitespace gets calc_dist_bytes(query, candidate).
C5_TokenMin ==
    pc = "done" =>
        /\ (HasWhitespace(full_name) /\ Tokens(full_name) # {}
                => ret = MinTokenDist(query, full_name))
        /\ (~HasWhitespace(full_name)
                => ret = calc_dist_bytes(query, full_name))

-----------------------------------------------------------------------------
(* get_names, src/main.rs:173-183 *)

\* str::trim, line 179: s without its leading and trailing whitespace
RECURSIVE trim_start(_)
trim_start(s) ==
    IF s # <<>> /\ is_whitespace(s[1]) THEN trim_start(Tail(s)) ELSE s

RECURSIVE trim_end(_)
trim_end(s) ==
    IF s # <<>> /\ is_whitespace(s[Len(s)])
    THEN trim_end(SubSeq(s, 1, Len(s) - 1)) ELSE s

trim(s) == trim_end(trim_start(s))

\* line 179: .filter(|line| !line.trim().is_empty())
not_blank(line) == trim(line) # <<>>

\* lines 176-180: the lines of names.csv that are not blank, in file order
get_names(lines) == SelectSeq(lines, not_blank)

-----------------------------------------------------------------------------
(* post_search, src/main.rs:143-171 *)

\* line 153: if distance < 3
THRESHOLD == 3

\* line 168: .take(10)
LIMIT == 10

keep(distance) == distance < THRESHOLD

\* lines 151-161: the closure of filter_map, Some(SearchResult) as a
\* one-element sequence and None as the empty one
score(query_bytes, name) ==
    LET distance == fuzzy_match(query_bytes, name)
    IN  IF keep(distance)
        THEN <<[name |-> name, distance |-> distance]>>
        ELSE <<>>

\* filter_map over names[lo..hi], in index order
RECURSIVE filter_map(_, _, _, _)
filter_map(query_bytes, ns, lo, hi) ==
    IF lo > hi THEN <<>>
    ELSE score(query_bytes, ns[lo]) \o filter_map(query_bytes, ns, lo + 1, hi)

\* lines 149-162: par_iter().filter_map(..).collect() gives the vector a
\* sequential filter_map gives (SpecPar below models the chunked execution)
par_filter_map_collect(query_bytes, ns) == filter_map(query_bytes, ns, 1, Len(ns))

\* line 164: the comparison sort_by_key makes, on the key item.distance
is_less_mut_or_equal(x, y) == x.distance <= y.distance
is_less(x, y) == x.distance < y.distance

\* slice::sort_by_key on a short slice is an insertion sort: each element in
\* turn moves left past the elements it is less than
RECURSIVE insert_tail(_, _)
insert_tail(v, x) ==
    IF v = <<>> \/ ~is_less(x, v[Len(v)]) THEN Append(v, x)
    ELSE Append(insert_tail(SubSeq(v, 1, Len(v) - 1), x), v[Len(v)])

RECURSIVE sort_from(_, _, _)
sort_from(v, i, sorted) ==
    IF i > Len(v) THEN sorted
    ELSE sort_from(v, i + 1, insert_tail(sorted, v[i]))

sort_by_key(v) == sort_from(v, 1, <<>>)

\* line 168: results.into_iter().take(10).collect()
take(v, n) == SubSeq(v, 1, Min2(n, Len(v)))

\* lines 164-168: the collected vector is sorted, then cut to its first 10
rank_and_truncate_mut_cut_first(v) == sort_by_key(take(v, LIMIT))
rank_and_truncate(v) == take(sort_by_key(v), LIMIT)

-----------------------------------------------------------------------------
(* Specification of the server: names.csv is read once, then post_search    *)
(* answers one request after the other. The response_time field of the      *)
(* response is a clock reading and is left out.                             *)

\* longest names.csv taken line by line, and the longest run of lines put
\* before and after LIMIT equal lines in the longer files
MaxFile == 3
MaxEdge == 1

\* longest query that is not itself a corpus entry
MaxSearchQueryLen == 1

\* the lines names.csv is made of:
\* "a", "ab", "b a", "a  b", "a<tab>b" and the blank line " "
Lines == {<<97>>, <<97, 98>>, <<98, 32, 97>>, <<97, 32, 32, 98>>,
          <<97, 9, 98>>, <<32>>}

Range(f) == {f[i] : i \in DOMAIN f}

\* the lines put before and after the equal ones: "a", "ab", "b a"
EdgeLines == {<<97>>, <<97, 98>>, <<98, 32, 97>>}

Files ==
    Str(Lines, MaxFile)
        \cup {pre \o [i \in 1..LIMIT |-> x] \o post :
                <<pre, x, post>> \in
                    Str(EdgeLines, MaxEdge) \X Lines \X Str(EdgeLines, MaxEdge)}

SearchQueries(ns) == Str(Letters, MaxSearchQueryLen) \cup Range(ns)

InitSearch ==
    /\ pc = "idle"
    /\ names \in {get_names(f) : f \in Files}
    /\ query = <<>> /\ collected = <<>> /\ response = <<>>
    /\ tasks = Unused /\ history = Unused
    /\ a = Unused /\ b = Unused /\ c = Unused
    /\ full_name = Unused /\ ret = Unused

post_search(q) ==
    /\ query' = q
    /\ collected' = par_filter_map_collect(q, names)
    /\ response' = rank_and_truncate(collected')
    /\ pc' = "done"
    /\ UNCHANGED <<names, tasks, history, a, b, c, full_name, ret>>

NextSearch == \E q \in SearchQueries(names) : post_search(q)

SpecSearch == InitSearch /\ [][NextSearch]_vars

-----------------------------------------------------------------------------
(* Claims about post_search *)

\* whether sub can be had from seq by deleting elements
RECURSIVE IsSubsequence(_, _)
IsSubsequence(sub, seq) ==
    IF sub = <<>> THEN TRUE
    ELSE IF seq = <<>> THEN FALSE
    ELSE IF Head(sub) = Head(seq) THEN IsSubsequence(Tail(sub), Tail(seq))
    ELSE IsSubsequence(sub, Tail(seq))

\* the names of the entries of v whose distance is d, in the order of v
NamesAt(v, d) ==
    LET F[i \in 0..Len(v)] ==
            IF i = 0 THEN <<>>
            ELSE IF v[i].distance = d THEN Append(F[i - 1], v[i].name)
            ELSE F[i - 1]
    IN  F[Len(v)]

\* C1: the result list has at most 10 entries, each of distance below 3, in
\* ascending order of distance, and the entries of equal distance are in the
\* relative order their candidates have in the corpus.
C1_ResultShape ==
    pc = "done" =>
        /\ Len(response) <= 10
        /\ \A i \in 1..Len(response) : response[i].distance < 3
        /\ \A i, j \in 1..Len(response) :
              i < j => response[i].distance <= response[j].distance
        /\ \A d \in 0..2 : IsSubsequence(NamesAt(response, d), names)

C1_Witness ==
    /\ pc = "done"
    /\ Len(names) > 10
    /\ Len(response) = 10
    /\ \E i, j \in 1..Len(response) :
          /\ i < j
          /\ response[i].distance = response[j].distance
          /\ response[i].name # response[j].name
    /\ response[1].distance < response[10].distance

\* how many entries of the sequence f satisfy Test
Count(f, Test(_)) == Cardinality({i \in DOMAIN f : Test(f[i])})

\* the candidates within the threshold ordered by distance and then by
\* corpus position, where dist[i] is the distance of candidate i
Ranked(dist) ==
    LET kept == {i \in DOMAIN dist : dist[i] < 3}
        before(i, j) == dist[i] < dist[j] \/ (dist[i] = dist[j] /\ i < j)
        rank == [i \in kept |-> 1 + Cardinality({j \in kept : before(j, i)})]
    IN  [r \in 1..Cardinality(kept) |->
            LET i == CHOOSE k \in kept : rank[k] = r
            IN  [name |-> names[i], distance |-> dist[i]]]

\* C2: the result list is the first 10 entries (all, if fewer) of the
\* candidates of distance below 3 ordered by distance and then by corpus
\* position: none of them is left out while the list has fewer than 10
\* entries, and none left out is strictly closer than a returned one.
C2_TopTen ==
    pc = "done" =>
        LET dist == [i \in 1..Len(names) |-> fuzzy_match(query, names[i])]
            kept == {i \in 1..Len(names) : dist[i] < 3}
            ranked == Ranked(dist)
            left_out(i) ==
                Count(response, LAMBDA e : e.name = names[i])
                    < Count(names, LAMBDA n : n = names[i])
        IN  /\ response = SubSeq(ranked, 1, Min2(10, Len(ranked)))
            /\ (Len(response) < 10 => \A i \in kept : ~left_out(i))
            /\ \A i \in kept :
                  left_out(i) => \A k \in 1..Len(response) :
                                    response[k].distance <= dist[i]

C2_Witness ==
    /\ pc = "done"
    /\ Len(response) = 10
    /\ Len(collected) > 10
    /\ \E i \in 11..Len(names) :
          /\ \E k \in 1..Len(response) :
                /\ response[k].name = names[i]
                /\ response[k].distance < response[10].distance
          /\ names[i] \notin {names[j] : j \in 1..10}

\* the start and end of each token of s: its maximal runs free of whitespace
TokenSpans(s) ==
    {p \in (1..Len(s)) \X (1..Len(s)) :
        /\ p[1] <= p[2]
        /\ \A k \in p[1]..p[2] : ~is_whitespace(s[k])
        /\ (p[1] = 1 \/ is_whitespace(s[p[1] - 1]))
        /\ (p[2] = Len(s) \/ is_whitespace(s[p[2] + 1]))}

TokenLens(s) == {p[2] - p[1] + 1 : p \in TokenSpans(s)}

\* C9: with the empty query each candidate's distance is the byte length of
\* its shortest token, so a candidate is kept if and only if it has a token
\* shorter than 3 bytes, and a corpus without such a candidate gives an empty
\* result list.
C9_EmptyQuery ==
    pc = "done" /\ query = <<>> =>
        /\ \A i \in 1..Len(names) :
              /\ (\E k \in 1..Len(collected) : collected[k].name = names[i])
                    <=> (\E n \in TokenLens(names[i]) : n < 3)
              /\ \A k \in 1..Len(collected) :
                    collected[k].name = names[i] =>
                        /\ collected[k].distance \in TokenLens(names[i])
                        /\ \A n \in TokenLens(names[i]) :
                              collected[k].distance <= n
        /\ ((\A i \in 1..Len(names) : \A n \in TokenLens(names[i]) : n >= 3)
                => response = <<>>)

-----------------------------------------------------------------------------
(* Specification of the parallel execution of one post_search call after    *)
(* the other. names.par_iter() hands the whole corpus to the thread pool as *)
(* one chunk; a chunk may be split in two at any place, any number of       *)
(* times; a worker scores a chunk from its first candidate to its last;     *)
(* two neighbouring results are reduced to one; .collect() returns when one *)
(* result is left. Workers take these steps in any order.                   *)

\* longest corpus scored in parallel, and the most requests answered
MaxParFile == 3
MaxCalls == 2

\* the lines of names.csv here: "a", "ab", "b a"; the queries: "a", "b"
ParLines == {<<97>>, <<97, 98>>, <<98, 32, 97>>}
ParQueries == {<<97>>, <<98>>}

\* a chunk names[lo..hi]: `out` is its scored result once `done`, `parts` the
\* number of chunks scored on their own that the result is made of
Chunk(lo, hi) == [lo |-> lo, hi |-> hi, done |-> FALSE, out |-> <<>>, parts |-> 0]

\* the reduction of two neighbouring results: the left one, then the right one
reduce_mut_right_first(left, right) == right \o left
reduce(left, right) == left \o right

Replace(seq, k, n, new) ==
    SubSeq(seq, 1, k - 1) \o new \o SubSeq(seq, k + n, Len(seq))

InitPar ==
    /\ pc = "idle"
    /\ names \in {get_names(f) : f \in Str(ParLines, MaxParFile)}
    /\ query = <<>> /\ collected = <<>> /\ response = <<>>
    /\ tasks = <<>>
    /\ history = <<>>
    /\ a = Unused /\ b = Unused /\ c = Unused
    /\ full_name = Unused /\ ret = Unused

\* lines 143-150: a request arrives and the corpus goes to the thread pool
Request(q) ==
    /\ pc \in {"idle", "done"}
    /\ Len(history) < MaxCalls
    /\ query' = q
    /\ tasks' = <<Chunk(1, Len(names))>>
    /\ pc' = "scoring"
    /\ UNCHANGED <<names, collected, response, history,
                   a, b, c, full_name, ret>>

\* a chunk not yet scored is split at mid
Split(k, mid) ==
    /\ pc = "scoring"
    /\ ~tasks[k].done
    /\ tasks[k].lo <= mid /\ mid < tasks[k].hi
    /\ tasks' = Replace(tasks, k, 1,
                        <<Chunk(tasks[k].lo, mid), Chunk(mid + 1, tasks[k].hi)>>)
    /\ UNCHANGED <<pc, names, query, collected, response, history,
                   a, b, c, full_name, ret>>

\* lines 151-161: a worker runs the closure over a chunk
Score(k) ==
    /\ pc = "scoring"
    /\ ~tasks[k].done
    /\ tasks' = [tasks EXCEPT
                    ![k].done = TRUE,
                    ![k].out = filter_map(query, names, tasks[k].lo, tasks[k].hi),
                    ![k].parts = 1]
    /\ UNCHANGED <<pc, names, query, collected, response, history,
                   a, b, c, full_name, ret>>

\* two neighbouring results are reduced to one
Reduce(k) ==
    /\ pc = "scoring"
    /\ k < Len(tasks)
    /\ tasks[k].done /\ tasks[k + 1].done
    /\ tasks' = Replace(tasks, k, 2,
                        <<[lo |-> tasks[k].lo, hi |-> tasks[k + 1].hi,
                           done |-> TRUE,
                           out |-> reduce(tasks[k].out, tasks[k + 1].out),
                           parts |-> tasks[k].parts + tasks[k + 1].parts]>>)
    /\ UNCHANGED <<pc, names, query, collected, response, history,
                   a, b, c, full_name, ret>>

\* lines 162-170: .collect() returns, the vector is sorted and cut, and the
\* response is sent
Respond ==
    /\ pc = "scoring"
    /\ Len(tasks) = 1 /\ tasks[1].done
    /\ collected' = tasks[1].out
    /\ response' = rank_and_truncate(collected')
    /\ history' = Append(history, [query |-> query, results |-> response'])
    /\ pc' = "done"
    /\ UNCHANGED <<names, query, tasks, a, b, c, full_name, ret>>

NextPar ==
    \/ \E q \in ParQueries : Request(q)
    \/ \E k \in 1..Len(tasks) : \E mid \in 1..Len(names) : Split(k, mid)
    \/ \E k \in 1..Len(tasks) : Score(k)
    \/ \E k \in 1..Len(tasks) : Reduce(k)
    \/ Respond

SpecPar == InitPar /\ [][NextPar]_vars

\* C3: however the corpus is split into chunks and in whatever order the
\* workers finish, the kept candidates are collected in corpus order and the
\* result list is the one a sequential scan gives; two calls with the same
\* query and the same corpus return the same list.
C3_Deterministic ==
    /\ pc = "scoring" =>
          \A k \in 1..Len(tasks) :
              tasks[k].done =>
                  tasks[k].out = filter_map(query, names, tasks[k].lo, tasks[k].hi)
    /\ pc = "done" =>
          /\ collected = filter_map(query, names, 1, Len(names))
          /\ response = rank_and_truncate(filter_map(query, names, 1, Len(names)))
    /\ \A i, j \in 1..Len(history) :
          history[i].query = history[j].query
              => history[i].results = history[j].results

C3_Witness ==
    /\ pc = "done"
    /\ tasks[1].parts = Len(names) /\ Len(names) = MaxParFile
    /\ Len(history) = 2 /\ history[1].query = history[2].query
    /\ \E i, j \in 1..Len(response) :
          /\ i < j
          /\ response[i].distance = response[j].distance
          /\ response[i].name # response[j].name

=============================================================================
